---- MODULE Spec2Model ----
(***************************************************************************)
(* A model of the fetch-request service of ember-fetch-request:            *)
(* addon/services/fetch-request.js and -private/utils/url-helpers.js.      *)
(*                                                                         *)
(* JavaScript strings are TLA+ strings (Len, SubSeq and \o act on them).   *)
(* An optional property of an object is a sequence of length 0 (absent,    *)
(* undefined) or 1 (present).                                              *)
(***************************************************************************)
EXTENDS Integers, Sequences, FiniteSets, TLC

VARIABLES
    host,       \* service default: host ("" when not configured)
    namespace,  \* service default: namespace ("" when not configured)
    headers,    \* service default: headers hash
    obj,        \* the caller's options object (options() writes into it)
    call,       \* the request() call being followed
    first,      \* target and dispatch of the first call made with obj
    probe       \* input and result of a bare _buildURL call

vars == <<host, namespace, headers, obj, call, first, probe>>

-----------------------------------------------------------------------------
(* Strings *)

\* String.prototype.charAt with a 0-based index: "" outside the string.
charAt(s, i) == IF i >= 0 /\ i < Len(s) THEN SubSeq(s, i + 1, i + 1) ELSE ""

\* String.prototype.slice(from, to) for 0 <= from, to: indices past the end
\* are clamped.
slice(s, from, to) ==
    LET e == IF to > Len(s) THEN Len(s) ELSE to
    IN  IF from >= e THEN "" ELSE SubSeq(s, from + 1, e)

\* String.prototype.substring(from)
substringFrom(s, from) == slice(s, from, Len(s))

startsWith(s, p) == slice(s, 0, Len(p)) = p

RECURSIVE includes(_, _)
\* String.prototype.includes
includes(s, sub) ==
    IF Len(s) < Len(sub) THEN FALSE
    ELSE startsWith(s, sub) \/ includes(substringFrom(s, 1), sub)

UpperCase == "ABCDEFGHIJKLMNOPQRSTUVWXYZ"
LowerCase == "abcdefghijklmnopqrstuvwxyz"

\* The lower-case letter of each upper-case letter.
LowerOf ==
    [c \in {charAt(UpperCase, i) : i \in 0..25} |->
        charAt(LowerCase, CHOOSE i \in 0..25 : charAt(UpperCase, i) = c)]

lowerChar(c) == IF c \in DOMAIN LowerOf THEN LowerOf[c] ELSE c

RECURSIVE toLowerCase(_)
toLowerCase(s) ==
    IF s = "" THEN "" ELSE lowerChar(charAt(s, 0)) \o toLowerCase(substringFrom(s, 1))

RECURSIVE join(_, _)
\* Array.prototype.join
join(parts, sep) ==
    IF Len(parts) = 0 THEN ""
    ELSE IF Len(parts) = 1 THEN parts[1]
    ELSE parts[1] \o sep \o join(Tail(parts), sep)

\* An optional property: absent, or present with a value.
Absent == << >>
Some(v) == <<v>>
\* `o || d` for an optional string property o and a string d.
OrElse(o, d) == IF o # Absent /\ o[1] # "" THEN o[1] ELSE d

-----------------------------------------------------------------------------
(* fetch-request.js: slash helpers *)

endsWithSlash(string) == charAt(string, Len(string) - 1) = "/"

removeTrailingSlash(string) == slice(string, 0, Len(string) - 1)

startsWithSlash(string) == charAt(string, 0) = "/"

removeLeadingSlash(string) == substringFrom(string, 1)

\* stripSlashes without its first branch: a leading slash is kept.
stripSlashes_KeepsLeading(path) ==
    IF endsWithSlash(path) THEN removeTrailingSlash(path) ELSE path

stripSlashes(path) ==
    LET p1 == IF startsWithSlash(path) THEN removeLeadingSlash(path) ELSE path
    IN  IF endsWithSlash(p1) THEN removeTrailingSlash(p1) ELSE p1

-----------------------------------------------------------------------------
(* url-helpers.js *)

\* completeUrlRegex = /^(http|https)/
isFullURL(url) == startsWith(url, "http") \/ startsWith(url, "https")

\* RegExp.prototype.test for a pattern anchored at the start of s, the pattern
\* made of literal characters and of ".", which matches any character.
RegexMatchesAt(pattern, s) ==
    /\ Len(s) >= Len(pattern)
    /\ \A i \in 0..(Len(pattern) - 1) :
          charAt(pattern, i) = "." \/ charAt(pattern, i) = charAt(s, i)

\* new RegExp(`^(/)?${ns}/`).test(url)
hasNamespaceRegex(ns, url) ==
    \/ startsWithSlash(url) /\ RegexMatchesAt(ns \o "/", removeLeadingSlash(url))
    \/ RegexMatchesAt(ns \o "/", url)

RECURSIVE indexOfAny(_, _, _)
\* The 0-based index of the first character of s, from i on, that is in the
\* set stops; Len(s) if there is none.
indexOfAny(s, stops, i) ==
    IF i >= Len(s) \/ charAt(s, i) \in stops THEN (IF i >= Len(s) THEN Len(s) ELSE i)
    ELSE indexOfAny(s, stops, i + 1)

\* parseURL(str): protocol, hostname and port of "scheme://hostname:port/..."
\* as the URL parser of the environment reports them (the other properties
\* are not read by this service); all three "" for a string with no "://".
parseURL(str) ==
    LET colon == indexOfAny(str, {":"}, 0)
        hasAuthority == slice(str, colon, colon + 3) = "://"
        rest == substringFrom(str, colon + 3)
        authority == slice(rest, 0, indexOfAny(rest, {"/", "?", "#"}, 0))
        portColon == indexOfAny(authority, {":"}, 0)
    IN  IF ~hasAuthority
        THEN [protocol |-> "", hostname |-> "", port |-> ""]
        ELSE [protocol |-> toLowerCase(slice(str, 0, colon + 1)),
              hostname |-> toLowerCase(slice(authority, 0, portColon)),
              port     |-> substringFrom(authority, portColon + 1)]

\* haveSameHost comparing protocol and hostname only.
haveSameHost_IgnoresPort(a, b) ==
    LET urlA == parseURL(a)
        urlB == parseURL(b)
    IN  /\ urlA.protocol = urlB.protocol
        /\ urlA.hostname = urlB.hostname

haveSameHost(a, b) ==
    LET urlA == parseURL(a)
        urlB == parseURL(b)
    IN  /\ urlA.protocol = urlB.protocol
        /\ urlA.hostname = urlB.hostname
        /\ urlA.port = urlB.port

-----------------------------------------------------------------------------
(* fetch-request.js: _buildURL *)

\* The namespace as _buildURL pushes it: both slashes stripped when a host was
\* pushed (host is the host after its own trailing slash was removed), only a
\* trailing one otherwise.
NamespacePart(ns, strippedHost) ==
    IF strippedHost # "" THEN stripSlashes(ns)
    ELSE IF endsWithSlash(ns) THEN removeTrailingSlash(ns) ELSE ns

_buildURL(url, optHost, optNamespace, svcHost, svcNamespace) ==
    IF isFullURL(url) THEN url
    ELSE
      LET h0 == OrElse(optHost, svcHost)
          h1 == IF endsWithSlash(h0) THEN removeTrailingSlash(h0) ELSE h0
          parts1 == IF h0 # "" THEN <<h1>> ELSE << >>
          n0 == OrElse(optNamespace, svcNamespace)
          n1 == NamespacePart(n0, h1)
          parts2 == IF n0 # "" /\ ~hasNamespaceRegex(stripSlashes(n1), url)
                    THEN Append(parts1, n1) ELSE parts1
          u1 == IF startsWithSlash(url) /\ Len(parts2) # 0
                THEN removeLeadingSlash(url) ELSE url
      IN  join(Append(parts2, u1), "/")

-----------------------------------------------------------------------------
(* JavaScript values: a request body *)

\* A value is [t, s, kv]: t its kind, s the text of a scalar, kv the entries
\* of a mapping (k the key) or the elements of an array (k unused), in order.
Str(s)  == [t |-> "string",  s |-> s,  kv |-> << >>]
Num(s)  == [t |-> "number",  s |-> s,  kv |-> << >>]
Bool(s) == [t |-> "boolean", s |-> s,  kv |-> << >>]
Null    == [t |-> "null",    s |-> "", kv |-> << >>]
Map(kv) == [t |-> "object",  s |-> "", kv |-> kv]
Arr(vs) == [t |-> "array",   s |-> "", kv |-> [i \in 1..Len(vs) |-> [k |-> "", v |-> vs[i]]]]
KV(k, v) == [k |-> k, v |-> v]

\* typeof v
typeof(v) == IF v.t \in {"object", "array", "null"} THEN "object" ELSE v.t

\* ToBoolean(v), as `if (v)` and `v || d` apply it
truthy(v) ==
    CASE v.t = "string"  -> v.s # ""
      [] v.t = "number"  -> v.s \notin {"0", "NaN"}
      [] v.t = "boolean" -> v.s = "true"
      [] v.t = "null"    -> FALSE
      [] OTHER           -> TRUE

RECURSIVE JSONStringify(_)
RECURSIVE JSONMembers(_, _, _)
\* JSON.stringify(v); the members of kv from index i on, comma separated
JSONMembers(isArray, kv, i) ==
    IF i > Len(kv) THEN ""
    ELSE (IF i > 1 THEN "," ELSE "")
         \o (IF isArray THEN "" ELSE "\"" \o kv[i].k \o "\":")
         \o JSONStringify(kv[i].v)
         \o JSONMembers(isArray, kv, i + 1)
JSONStringify(v) ==
    CASE v.t = "string" -> "\"" \o v.s \o "\""
      [] v.t = "null"   -> "null"
      [] v.t = "array"  -> "[" \o JSONMembers(TRUE, v.kv, 1) \o "]"
      [] v.t = "object" -> "{" \o JSONMembers(FALSE, v.kv, 1) \o "}"
      [] OTHER          -> v.s

-----------------------------------------------------------------------------
(* url-helpers.js: param *)

\* The characters of the inputs that encodeURIComponent escapes.
Escapes == << <<"[", "%5B">>, <<"]", "%5D">>, <<"=", "%3D">>, <<"&", "%26">>,
              <<"/", "%2F">>, <<":", "%3A">>, <<"?", "%3F">>, <<"+", "%2B">>,
              <<" ", "%20">>, <<"%", "%25">>, <<",", "%2C">>, <<"{", "%7B">>,
              <<"}", "%7D">>, <<"\"", "%22">> >>

\* The escape of each such character.
EscapeOf == [c \in {Escapes[i][1] : i \in 1..Len(Escapes)} |->
                Escapes[CHOOSE i \in 1..Len(Escapes) : Escapes[i][1] = c][2]]

encodeChar(c) == IF c \in DOMAIN EscapeOf THEN EscapeOf[c] ELSE c

RECURSIVE encodeURIComponent(_)
encodeURIComponent(s) ==
    IF s = "" THEN ""
    ELSE encodeChar(charAt(s, 0)) \o encodeURIComponent(substringFrom(s, 1))

\* add(key, value): one "key=value" entry of s; null encodes as "".
add(key, value) ==
    encodeURIComponent(key) \o "=" \o encodeURIComponent(value.s)

RECURSIVE buildParams(_, _)
RECURSIVE buildParamsEach(_, _, _, _)
\* buildParams(prefix, obj, add): the entries it adds, in order
buildParams(prefix, v) ==
    IF v.t = "array" THEN buildParamsEach(prefix, TRUE, v.kv, 1)
    ELSE IF typeof(v) = "object" THEN buildParamsEach(prefix, FALSE, v.kv, 1)
    ELSE <<add(prefix, v)>>
\* the forEach of an array and the for-in of a mapping, from entry i on
buildParamsEach(prefix, isArray, kv, i) ==
    IF i > Len(kv) THEN << >>
    ELSE LET key == IF isArray
                    THEN (IF typeof(kv[i].v) = "object" /\ kv[i].v.t # "null"
                          THEN ToString(i - 1) ELSE "")
                    ELSE kv[i].k
         IN  buildParams(prefix \o "[" \o key \o "]", kv[i].v)
             \o buildParamsEach(prefix, isArray, kv, i + 1)

RECURSIVE paramEntries(_, _)
\* `for (prefix in a) buildParams(prefix, a[prefix], add)` from entry i on; the
\* enumerable keys of a string are its indices, a number or boolean has none.
paramEntries(a, i) ==
    CASE a.t = "object" ->
           IF i > Len(a.kv) THEN << >>
           ELSE buildParams(a.kv[i].k, a.kv[i].v) \o paramEntries(a, i + 1)
      [] a.t = "string" ->
           IF i > Len(a.s) THEN << >>
           ELSE <<add(ToString(i - 1), Str(charAt(a.s, i - 1)))>> \o paramEntries(a, i + 1)
      [] OTHER -> << >>

\* param(a): [threw, s]. The callback the array branch hands to forEach reads
\* this.name with `this` undefined (a module is strict code): a TypeError on
\* the first element.
param(a) ==
    IF a.t = "null" THEN [threw |-> FALSE, s |-> ""]
    ELSE IF a.t = "array"
         THEN [threw |-> Len(a.kv) > 0, s |-> ""]
         ELSE [threw |-> FALSE, s |-> join(paramEntries(a, 1), "&")]

-----------------------------------------------------------------------------
(* fetch-request.js: options *)

\* An options object: every property optional.
EmptyOptions ==
    [url |-> Absent, method |-> Absent, headers |-> Absent, contentType |-> Absent,
     body |-> Absent, host |-> Absent, namespace |-> Absent]

\* JSONContentType = /^application\/(?:vnd\.api\+)?json/i on a string header;
\* a header that is no string (absent) is no JSON content type.
isJSONContentType(header) ==
    /\ header # Absent
    /\ \/ startsWith(toLowerCase(header[1]), "application/json")
       \/ startsWith(toLowerCase(header[1]), "application/vnd.api+json")

\* getHeader(headers, name): the header of that name, if any.
getHeader(hdrs, name) ==
    IF hdrs # Absent /\ name \in DOMAIN hdrs[1] THEN Some(hdrs[1][name]) ELSE Absent

isJSONStringifyable(o) ==
    IF o.method = Some("GET") THEN FALSE
    ELSE IF ~isJSONContentType(o.contentType)
            /\ ~isJSONContentType(getHeader(o.headers, "Content-Type"))
         THEN FALSE
         ELSE IF typeof(o.body[1]) # "object" THEN FALSE
         ELSE TRUE

\* _shouldSendHeaders({ url, host }) of a service whose host is svcHost
_shouldSendHeaders(url, optHost, svcHost) ==
    LET u == OrElse(url, "")
        h == OrElse(optHost, svcHost)
    IN  IF ~isFullURL(u) THEN TRUE ELSE haveSameHost(u, h)

\* assign({}, this.headers, headers)
_getFullHeadersHash(hdrs, svcHeaders) ==
    IF hdrs = Absent THEN svcHeaders ELSE hdrs[1] @@ svcHeaders

\* isEmpty(contentType) for an optional string
isEmpty(o) == o = Absent \/ o[1] = ""

\* options.url = this._buildURL(url, options)
optionsURL(url, o, svcHost, svcNamespace) ==
    [o EXCEPT !.url = Some(_buildURL(url, o.host, o.namespace, svcHost, svcNamespace))]

\* options.method = options.method || 'GET'
optionsMethod(o) == [o EXCEPT !.method = Some(OrElse(o.method, "GET"))]

\* The service headers merged in, or the headers of the call as they are.
optionsHeaders(o, svcHost, svcHeaders) ==
    [o EXCEPT !.headers =
        IF _shouldSendHeaders(o.url, o.host, svcHost)
        THEN Some(_getFullHeadersHash(o.headers, svcHeaders))
        ELSE IF o.headers = Absent THEN Some(<< >>) ELSE o.headers]

\* set(options.headers, 'Content-Type', options.contentType)
optionsContentType(o) ==
    IF ~isEmpty(o.contentType)
    THEN [o EXCEPT !.headers = Some(("Content-Type" :> o.contentType[1]) @@ o.headers[1])]
    ELSE o

\* `if (options.body) { ... }`: [threw, obj], threw when param() throws.
optionsBody(o) ==
    IF o.body # Absent /\ truthy(o.body[1])
    THEN IF isJSONStringifyable(o)
         THEN [threw |-> FALSE,
               obj |-> [o EXCEPT !.body = Some(Str(JSONStringify(o.body[1])))]]
         ELSE IF o.method = Some("GET")
              THEN IF param(o.body[1]).threw
                   THEN [threw |-> TRUE, obj |-> o]
                   ELSE [threw |-> FALSE,
                         obj |-> [o EXCEPT
                                    !.url = Some(o.url[1] \o "?" \o param(o.body[1]).s),
                                    !.body = Absent]]
              ELSE [threw |-> FALSE, obj |-> o]
    ELSE [threw |-> FALSE, obj |-> o]

\* options(url, options) on a service with these defaults: [threw, obj], obj
\* the options object as the call leaves it (the object passed in is the one
\* written to and returned).
options(url, o, svcHost, svcNamespace, svcHeaders) ==
    optionsBody(optionsContentType(optionsHeaders(
        optionsMethod(optionsURL(url, o, svcHost, svcNamespace)),
        svcHost, svcHeaders)))

-----------------------------------------------------------------------------
(* fetch-request.js: request, getBody, _handleErrors *)

Pending     == [kind |-> "pending", v |-> ""]
Resolved(v) == [kind |-> "value", v |-> v]
Rejected(e) == [kind |-> "error", v |-> e]

\* response.ok of the transport's response: a status in 200..299
ok(response) ==
    response.status # Absent /\ response.status[1] >= 200 /\ response.status[1] <= 299

\* The status check of request() never taking the response for a failed one.
hasNoStatus_Never(response) == FALSE

\* response.status === null || response.status === undefined
hasNoStatus(response) == response.status = Absent

\* getBody looking for "text" before "json".
bodyReader_TextFirst(contentType) ==
    IF contentType = Absent THEN "none"
    ELSE IF includes(contentType[1], "text") THEN "text"
    ELSE IF includes(contentType[1], "json") THEN "json"
    ELSE "unsupported"

\* getBody(response): what it does with the content-type header it looked up:
\* "none" (returns a promise that never settles), "json" or "text" (awaits
\* that reader of the response), "unsupported" (throws).
bodyReader(contentType) ==
    IF contentType = Absent THEN "none"
    ELSE IF includes(contentType[1], "json") THEN "json"
    ELSE IF includes(contentType[1], "text") THEN "text"
    ELSE "unsupported"

UnsupportedContentType(contentType) ==
    "Error: Unsupported response content-type: " \o contentType

\* _handleErrors(response): the error its switch on response.status throws
_handleErrors(status) ==
    CASE status = Some(422) -> "InvalidError"
      [] status = Some(401) -> "UnauthorizedError"
      [] status = Some(403) -> "ForbiddenError"
      [] status = Some(400) -> "BadRequestError"
      [] status = Some(404) -> "NotFoundError"
      [] status = Some(410) -> "GoneError"
      [] status = Some(-1)  -> "TimeoutError"
      [] status = Some(0)   -> "AbortError"
      [] status = Some(409) -> "ConflictError"
      [] status = Some(500) -> "ServerError"
      [] OTHER              -> "ServerError"

\* catch(error) { throw error(payload) }: error is the instance _handleErrors
\* made with `new`, no function, so the call expression throws a TypeError and
\* that is what leaves request().
rethrown(error) == "TypeError"

NoCall ==
    [pc |-> "idle", target |-> "", reused |-> FALSE, passed |-> EmptyOptions,
     threw |-> FALSE, sent |-> Absent, response |-> Absent,
     headerGets |-> 0, jsonCalls |-> 0, textCalls |-> 0,
     payload |-> "none", payloadValue |-> "", outcome |-> Pending, settles |-> 0]

settle(c, outcome) ==
    [c EXCEPT !.pc = "settled", !.outcome = outcome, !.settles = @ + 1]

\* request() up to `await fetch(...)`: options() on the object passed in, then
\* the dispatch of what it returned. A throw of options() rejects the promise.
requestDispatch(target, o, reused, r) ==
    IF r.threw
    THEN settle([NoCall EXCEPT !.target = target, !.reused = reused, !.passed = o,
                               !.threw = TRUE],
                Rejected("TypeError"))
    ELSE [NoCall EXCEPT !.target = target, !.reused = reused, !.passed = o,
                        !.pc = "fetching", !.sent = Some(r.obj)]

requestStart(target, o, reused, svcHost, svcNamespace, svcHeaders) ==
    requestDispatch(target, o, reused,
                    options(target, o, svcHost, svcNamespace, svcHeaders))

\* request() from the response on, to its return or throw.
requestAfterFetch(c, response) ==
    IF hasNoStatus(response)
    THEN settle([c EXCEPT !.response = Some(response)], Rejected("NetworkError"))
    ELSE
      LET reader == bodyReader(response.contentType)
          c1 == [c EXCEPT
                   !.response = Some(response),
                   !.headerGets = @ + 1,
                   !.jsonCalls = @ + (IF reader = "json" THEN 1 ELSE 0),
                   !.textCalls = @ + (IF reader = "text" THEN 1 ELSE 0),
                   !.payload = CASE reader = "none" -> "never"
                                 [] reader = "unsupported" -> "rejected"
                                 [] OTHER -> "pending",
                   !.payloadValue = IF reader = "unsupported"
                                    THEN UnsupportedContentType(response.contentType[1])
                                    ELSE ""]
      IN  IF ~ok(response)
          THEN settle(c1, Rejected(rethrown(_handleErrors(response.status))))
          ELSE CASE c1.payload = "never"    -> [c1 EXCEPT !.pc = "hung"]
                 [] c1.payload = "rejected" -> settle(c1, Rejected(c1.payloadValue))
                 [] OTHER                   -> [c1 EXCEPT !.pc = "awaitingBody"]

\* The reader getBody awaits settles: the payload settles with it, and with
\* the payload the promise of a request() that returned it.
requestAfterBody(c, outcome) ==
    LET c1 == [c EXCEPT !.payload = IF outcome.kind = "value" THEN "resolved"
                                    ELSE "rejected",
                        !.payloadValue = outcome.v]
    IN  IF c.pc = "awaitingBody" THEN settle(c1, outcome) ELSE c1

-----------------------------------------------------------------------------
(* Inputs *)

Hosts == {"https://api.x.com", "https://api.x.com/", "https://api.x.com//",
          "http://a.co:81/", "/"}

Namespaces == {"v1", "/v1", "v1/", "/v1/", "//v1", "v1//", "api/v1", "v.", "/"}

RelativeTargets == {"users", "/users", "users/", "//users", "v1/users",
                    "/v1/users", "vx/users", "v1users", "/"}

ServiceHosts == {"https://api.x.com", ""}
ServiceNamespaces == {"v1", ""}
ServiceHeaders == ("Authorization" :> "secret")

Targets == {"users", "/v1/users", "https://api.x.com/users",
            "https://other.com/resource", "http://api.x.com/users",
            "https://api.x.com:8443/users"}

Filter == Map(<<KV("filter", Map(<<KV("active", Bool("true"))>>))>>)
Tags   == Map(<<KV("tags", Arr(<<Str("a b"), Num("2")>>)), KV("page", Null)>>)
FormElements == Arr(<<Map(<<KV("name", Str("a")), KV("value", Str("1"))>>)>>)
Token == ("X-Token" :> "t")

With(o, field, v) == [o EXCEPT ![field] = Some(v)]
Get(o)  == With(o, "method", "GET")
Post(o) == With(o, "method", "POST")
Body(v) == With(EmptyOptions, "body", v)

\* The options objects a caller builds.
RawOptions ==
    { EmptyOptions,
      Get(Body(Filter)),
      Body(Tags),
      Get(Body(Str(""))), Body(Num("0")), Get(Body(Bool("false"))), Body(Null),
      Get(Body(Str("q=1"))),
      Get(Body(FormElements)),
      Get(Body(Arr(<< >>))),
      Post(With(Body(Filter), "contentType", "application/json")),
      Post(With(Body(Tags), "headers", ("Content-Type" :> "Application/vnd.api+json"))),
      Post(Body(Str("raw"))),
      With(EmptyOptions, "headers", Token),
      With(EmptyOptions, "headers", ("Authorization" :> "mine")),
      With(With(EmptyOptions, "headers", Token), "host", "https://other.com"),
      With(With(EmptyOptions, "namespace", "/v2/"), "contentType", "text/plain") }

Statuses == {200, 204, 400, 401, 403, 404, 409, 410, 422, 500, 503, -1, 0}

ContentTypes == {"application/json", "text/plain", "text/x-json", "image/png"}

Responses ==
    [status : {Absent} \cup {Some(n) : n \in Statuses},
     contentType : {Absent} \cup {Some(t) : t \in ContentTypes}]

Bodies == {"{a:1}", "hello"}

NoProbe == [target |-> "", url |-> "", done |-> FALSE]

-----------------------------------------------------------------------------
(* The service and its callers *)

Init ==
    /\ host \in ServiceHosts
    /\ namespace \in ServiceNamespaces
    /\ headers = ServiceHeaders
    /\ obj = EmptyOptions
    /\ call = NoCall
    /\ first = Absent
    /\ probe = NoProbe

\* The call before has gone quiet: nothing of it is left to run.
Quiet == call.pc \in {"settled", "hung"} /\ call.payload # "pending"

\* The caller builds an options object and makes its first call with it:
\* request(target, raw).
RequestFresh(target, raw) ==
    /\ call.pc = "idle"
    /\ call' = requestStart(target, raw, FALSE, host, namespace, headers)
    /\ obj' = options(target, raw, host, namespace, headers).obj
    /\ first' = Some([target |-> target, sent |-> call'.sent])
    /\ UNCHANGED <<host, namespace, headers, probe>>

\* The caller passes the same options object to a further call, once the call
\* before has gone quiet: request(target, o).
RequestReuse(target) ==
    /\ Quiet
    /\ call' = requestStart(target, obj, TRUE, host, namespace, headers)
    /\ obj' = options(target, obj, host, namespace, headers).obj
    /\ UNCHANGED <<host, namespace, headers, first, probe>>

\* The transport's promise resolves with a response.
FetchResolves(response) ==
    /\ call.pc = "fetching"
    /\ call' = requestAfterFetch(call, response)
    /\ UNCHANGED <<host, namespace, headers, obj, first, probe>>

\* The transport's promise rejects: the await throws out of request().
FetchRejects ==
    /\ call.pc = "fetching"
    /\ call' = settle(call, Rejected("FetchError"))
    /\ UNCHANGED <<host, namespace, headers, obj, first, probe>>

\* response.json() or response.text() resolves with a value.
ReaderResolves(v) ==
    /\ call.payload = "pending"
    /\ call' = requestAfterBody(call, Resolved(v))
    /\ UNCHANGED <<host, namespace, headers, obj, first, probe>>

\* response.json() or response.text() rejects.
ReaderRejects ==
    /\ call.payload = "pending"
    /\ call' = requestAfterBody(call, Rejected("SyntaxError"))
    /\ UNCHANGED <<host, namespace, headers, obj, first, probe>>

(* A call with an options object built for it, over a transport and body
   readers that settle in every way they can. *)
Next ==
    \/ \E t \in Targets, raw \in RawOptions : RequestFresh(t, raw)
    \/ \E r \in Responses : FetchResolves(r)
    \/ FetchRejects
    \/ \E v \in Bodies : ReaderResolves(v)
    \/ ReaderRejects

Spec == Init /\ [][Next]_vars

(* A caller that passes its options object to call after call, over a
   transport that is down: what each call dispatches. *)
NextReuse ==
    \/ \E t \in Targets, raw \in RawOptions : RequestFresh(t, raw)
    \/ \E t \in Targets : RequestReuse(t)
    \/ FetchRejects

SpecReuse == Init /\ [][NextReuse]_vars

(* A bare _buildURL call on a service with host and namespace configured. *)
InitURL ==
    /\ host \in Hosts
    /\ namespace \in Namespaces
    /\ headers = ServiceHeaders
    /\ obj = EmptyOptions
    /\ call = NoCall
    /\ first = Absent
    /\ probe \in [target : RelativeTargets, url : {""}, done : {FALSE}]

BuildURL ==
    /\ ~probe.done
    /\ probe' = [probe EXCEPT !.url = _buildURL(probe.target, Absent, Absent,
                                                host, namespace),
                              !.done = TRUE]
    /\ UNCHANGED <<host, namespace, headers, obj, call, first>>

NextURL == BuildURL

SpecURL == InitURL /\ [][NextURL]_vars

-----------------------------------------------------------------------------
(* C1: a non-success status and the typed error *)

\* The error kind the status table assigns to a status.
ErrorKindOfStatus(n) ==
    CASE n = 422 -> "InvalidError"      [] n = 401 -> "UnauthorizedError"
      [] n = 403 -> "ForbiddenError"    [] n = 400 -> "BadRequestError"
      [] n = 404 -> "NotFoundError"     [] n = 410 -> "GoneError"
      [] n = 409 -> "ConflictError"     [] n = -1  -> "TimeoutError"
      [] n = 0   -> "AbortError"        [] OTHER   -> "ServerError"

HasStatus == call.response # Absent /\ call.response[1].status # Absent

\* C1: a call whose response carries a non-success status rejects with the
\* typed error the status table assigns to that status.
C1_TypedErrorOfStatus ==
    (HasStatus /\ ~ok(call.response[1])) =>
        call.outcome = Rejected(ErrorKindOfStatus(call.response[1].status[1]))

-----------------------------------------------------------------------------
(* C2: a response with no status *)

NoStatus == call.response # Absent /\ call.response[1].status = Absent

\* C2: a call whose response has no status rejects with NetworkError, and at
\* no point of the call is a body reader invoked or the content-type header
\* looked up.
C2_NoStatusIsNetworkError ==
    NoStatus =>
        /\ call.outcome = Rejected("NetworkError")
        /\ call.jsonCalls = 0
        /\ call.textCalls = 0
        /\ call.headerGets = 0

C2_Witness ==
    /\ NoStatus
    /\ call.response[1].contentType = Some("application/json")
    /\ call.pc = "settled"
    /\ call.outcome = Rejected("NetworkError")

-----------------------------------------------------------------------------
(* C3: one outcome per call *)

\* The transport was called and has settled; no body reader is still to settle.
TransportSettled == call.sent # Absent /\ call.pc # "fetching"
ReaderSettled == call.payload # "pending"

\* C3: the promise of a call settles at most once, and has settled, once, with
\* a value or an error, whenever the transport has settled and the body reader
\* asked for, if any, has settled.
C3_OneOutcomePerCall ==
    /\ call.settles <= 1
    /\ (TransportSettled /\ ReaderSettled) =>
          (call.settles = 1 /\ call.outcome.kind \in {"value", "error"})

-----------------------------------------------------------------------------
(* C4: service headers and other hosts *)

\* Protocol, hostname or port of the absolute URL url differ from those of h.
OtherHost(url, h) == isFullURL(url) /\ parseURL(url) # parseURL(h)

\* The headers of the options object o, with the Content-Type of its
\* contentType when it has one.
PerCallHeaders(o) ==
    LET own == IF o.headers = Absent THEN << >> ELSE o.headers[1]
    IN  IF isEmpty(o.contentType) THEN own
        ELSE ("Content-Type" :> o.contentType[1]) @@ own

\* C4 as stated: when the target is an absolute URL on another host than the
\* one the service is configured with, whatever the options, the headers
\* dispatched are exactly the per-call headers.
C4_DefaultsWithheldFromOtherHosts ==
    (call.sent # Absent /\ OtherHost(call.target, host)) =>
        call.sent[1].headers = Some(PerCallHeaders(call.passed))

\* C4 as amended: when the target is an absolute URL on another host than the
\* host in effect for the call (the host of the options when they carry one,
\* the service's otherwise), the headers dispatched are exactly the per-call
\* headers.
C4_DefaultsWithheldFromOtherThanEffectiveHost ==
    (call.sent # Absent /\ OtherHost(call.target, OrElse(call.passed.host, host))) =>
        call.sent[1].headers = Some(PerCallHeaders(call.passed))

C4_Witness ==
    /\ call.sent # Absent
    /\ host = "https://api.x.com"
    /\ call.target = "https://other.com/resource"
    /\ call.passed.host = Absent
    /\ call.passed.headers = Some(Token)
    /\ call.sent[1].headers = Some(Token)
    /\ "Authorization" \in DOMAIN headers

-----------------------------------------------------------------------------
(* C5: _buildURL on a relative target *)

RECURSIVE NoTrailingSlashes(_)
NoTrailingSlashes(s) ==
    IF endsWithSlash(s) THEN NoTrailingSlashes(removeTrailingSlash(s)) ELSE s

RECURSIVE NoLeadingSlashes(_)
NoLeadingSlashes(s) ==
    IF startsWithSlash(s) THEN NoLeadingSlashes(removeLeadingSlash(s)) ELSE s

NoOuterSlashes(s) == NoLeadingSlashes(NoTrailingSlashes(s))

\* H, N and t joined with exactly one "/" between adjacent segments.
JoinedHNT(H, N, t) ==
    NoTrailingSlashes(H) \o "/" \o NoOuterSlashes(N) \o "/" \o NoLeadingSlashes(t)

AtMostOneSlashEach(H, N, t) ==
    /\ NoTrailingSlashes(H) # ""
    /\ NoOuterSlashes(N) # ""
    /\ Len(H) - Len(NoTrailingSlashes(H)) <= 1
    /\ Len(N) - Len(NoLeadingSlashes(N)) <= 1
    /\ Len(N) - Len(NoTrailingSlashes(N)) <= 1
    /\ Len(t) - Len(NoLeadingSlashes(t)) <= 1

\* The target already begins with the namespace and a "/", after an optional
\* leading "/", the namespace read as a regular expression.
TargetHasNamespace(N, t) == hasNamespaceRegex(NoOuterSlashes(N), t)

-----------------------------------------------------------------------------
(* C6: a GET carries no body *)

\* C6: when the method options() leaves is GET, the descriptor has no body
\* field, and a body the caller supplied has been appended, serialized by
\* param(), to the URL after a "?".
C6_GetHasNoBody ==
    (call.sent # Absent /\ call.sent[1].method = Some("GET")) =>
        /\ call.sent[1].body = Absent
        /\ call.passed.body # Absent =>
              call.sent[1].url =
                  Some(_buildURL(call.target, call.passed.host, call.passed.namespace,
                                 host, namespace)
                       \o "?" \o param(call.passed.body[1]).s)

-----------------------------------------------------------------------------
(* C7: a success response with a JSON or text body *)

Decodable ==
    /\ HasStatus
    /\ ok(call.response[1])
    /\ call.response[1].contentType # Absent
    /\ \/ includes(call.response[1].contentType[1], "json")
       \/ includes(call.response[1].contentType[1], "text")

\* C7: a call whose response has a success status and a content type
\* containing "json" (containing "text" and not "json") invokes the json()
\* reader (the text() reader) exactly once and the other never, and resolves
\* with exactly the value that reader produces.
C7_ResolvesWithReaderValue ==
    Decodable =>
        /\ call.jsonCalls =
              (IF includes(call.response[1].contentType[1], "json") THEN 1 ELSE 0)
        /\ call.textCalls =
              (IF includes(call.response[1].contentType[1], "json") THEN 0 ELSE 1)
        /\ call.payload = "pending" => call.outcome = Pending
        /\ call.payload = "resolved" =>
              (call.outcome = Resolved(call.payloadValue) /\ call.settles = 1)

C7_Witness ==
    /\ Decodable
    /\ call.response[1].contentType = Some("text/x-json")
    /\ call.jsonCalls = 1
    /\ call.payload = "resolved"
    /\ call.outcome = Resolved("{a:1}")

-----------------------------------------------------------------------------
(* C8: an unsupported content type *)

\* C8: a call whose response has a status and a content type containing
\* neither "json" nor "text" rejects with the unsupported-content-type error
\* naming that type, whether the status is a success or not.
C8_UnsupportedTypeFirst ==
    (/\ HasStatus
     /\ call.response[1].contentType # Absent
     /\ ~includes(call.response[1].contentType[1], "json")
     /\ ~includes(call.response[1].contentType[1], "text")) =>
        call.outcome = Rejected(UnsupportedContentType(call.response[1].contentType[1]))

-----------------------------------------------------------------------------
(* C9: options() never raises *)

\* C9: options() returns a descriptor with a url and a headers mapping for
\* every target and options, and never throws.
C9_OptionsNeverRaises ==
    call.pc # "idle" =>
        /\ ~call.threw
        /\ call.sent # Absent
        /\ call.sent[1].url # Absent
        /\ call.sent[1].headers # Absent

-----------------------------------------------------------------------------
(* C10: nothing carries over between calls *)

\* What the transport is handed: URL, method, headers and body.
Dispatched(o) == <<o.url, o.method, o.headers, o.body>>

\* C10: a call passed the options object and the target of an earlier call
\* dispatches the same URL, method, headers and body as that call did.
C10_SameOptionsSameDispatch ==
    (/\ call.reused
     /\ call.target = first[1].target
     /\ call.sent # Absent
     /\ first[1].sent # Absent) =>
        Dispatched(call.sent[1]) = Dispatched(first[1].sent[1])

====
